---- MODULE Spec2Model ----
(***************************************************************************)
(* shell-candy: ShellTask::run (src/src/task/mod.rs) with the reader jobs  *)
(* of ShellTaskRunner::run (src/src/task/runner.rs).                       *)
(*                                                                         *)
(* One run of a constructed ShellTask is modelled as five concurrent       *)
(* parties: the child process, the stdout reader job, the stderr reader    *)
(* job, the dispatcher job (the closure of mod.rs:179-227) and the         *)
(* orchestrator (the thread that called run).  Shared state is the         *)
(* channel, log_drain, maybe_result and the two collected_*_lines buffers. *)
(***************************************************************************)
EXTENDS Naturals, Integers, Sequences, FiniteSets, TLC

\* ------------------------------------------------------------------ bounds
\* Largest number of lines the child writes to its stdout.
MaxOut == 2

\* Largest number of lines the child writes to its stderr.
MaxErr == 1

\* Largest number of characters of a command text given to ShellTask::new.
MaxCmdLen == 3

\* Largest number of calls of run on one Task.
MaxCalls == 2

\* ------------------------------------------------------------- data types
\* ShellTaskLog (src/src/log.rs): the two variants; the text of the i-th line
\* of a stream is i.
Streams == {"Stdout", "Stderr"}

MaxLen(s) == IF s = "Stdout" THEN MaxOut ELSE MaxErr

ShellTaskLog(s, t) == [stream |-> s, text |-> t]

\* A missing record, and an empty Option.
NoLog == [stream |-> "none", text |-> 0]

None == [some |-> FALSE, ok |-> TRUE, val |-> NoLog]

Some(ok, v) == [some |-> TRUE, ok |-> ok, val |-> v]

\* ShellTaskBehavior (src/src/task/behavior.rs): Passthrough, or
\* EarlyReturn(Ok(v)) / EarlyReturn(Err(e)).
Passthrough == [kind |-> "Passthrough", ok |-> TRUE, val |-> NoLog]

EarlyReturn(ok, v) == [kind |-> "EarlyReturn", ok |-> ok, val |-> v]

\* The log handlers of the model: a pure function of the record, which
\* returns EarlyReturn on the one record its trigger names and Passthrough on
\* every other record; NeverTrigger returns Passthrough on every record.
\* Like the handler of the doc test (mod.rs:122-132) it returns the record's
\* message as its value (Ok) or as the identity of its error (Err).  A run
\* is over for its handler at the first EarlyReturn (mod.rs:209-212), so a
\* handler with several triggers behaves in each run as the handler whose
\* trigger is the first of them to be received.
NeverTrigger == [stream |-> "never", text |-> 0, ok |-> TRUE]

Handlers ==
    {NeverTrigger} \cup
    UNION {[stream : {s}, text : 1..MaxLen(s), ok : BOOLEAN] : s \in Streams}

Matches(h, rec) ==
    /\ h.stream = rec.stream
    /\ h.text = rec.text

\* (log_handler)(line), mod.rs:206.
ApplyHandler(h, rec) ==
    IF Matches(h, rec) THEN EarlyReturn(h.ok, rec) ELSE Passthrough

\* ------------------------------------------------------------------ state
VARIABLES
    command,                \* the command text given to ShellTask::new
    cwdOk,                  \* env::current_dir() succeeds (mod.rs:38-39)
    task,                   \* what ShellTask::new returned
    lines,                  \* the child's program: the lines it writes per stream
    unreadable,             \* the child's program: per stream, the lines whose read fails
    status,                 \* the child's program: its exit status
    handler,                \* the log_handler passed to run
    childState,             \* "unspawned" | "running" | "exited"
    emitted,                \* per stream: lines the child has written to its pipe
    readCnt,                \* per stream: lines the reader has read from the pipe
    rpc,                    \* per stream: position of the reader job
    log_drain,              \* the Vec behind log_drain (mod.rs:165)
    drainLock,              \* holder of log_drain's mutex: "free" | "dispatcher"
    drainPoisoned,          \* log_drain's mutex is poisoned
    channel,                \* records sent and not yet received
    dpc,                    \* position of the dispatcher job
    line,                   \* the record the dispatcher is working on
    collected_stdout_lines, \* mod.rs:174
    collected_stderr_lines, \* mod.rs:175
    maybe_result,           \* mod.rs:171
    opc,                    \* position of the orchestrator (the caller of run)
    stderr_copy,            \* the local of mod.rs:260
    stdout_copy,            \* the local of mod.rs:261
    result,                 \* what run returned
    received,               \* history: the records the dispatcher received, in order
    handlerCalls,           \* history: the records the handler was invoked on, in order
    slotRead,               \* history: what the take() of mod.rs:262 returned
    described,              \* what the caller's last descriptor call returned
    calls,                  \* the number of calls of run made on the Task
    stale,                  \* the dispatcher job of an earlier call of run
    log_counter,            \* the counter of the run of src/src/task.rs (task.rs:138)
    pool,                   \* the worker pool the jobs are handed to (rayon::spawn)
    held                    \* who holds the mutex of the slot and of each buffer

vars == <<command, cwdOk, task, lines, unreadable, status, handler, childState, emitted, readCnt, rpc, log_drain,
          drainLock, drainPoisoned, channel, dpc, line,
          collected_stdout_lines, collected_stderr_lines, maybe_result, opc,
          stderr_copy, stdout_copy, result, received, handlerCalls, slotRead,
          described, calls, stale, log_counter, pool, held>>

childVars == <<childState, emitted>>

readerVars == <<readCnt, rpc>>

dispVars == <<dpc, line>>

bufVars == <<collected_stdout_lines, collected_stderr_lines>>

orchVars == <<opc, stderr_copy, stdout_copy, result, slotRead>>

\* What belongs to the caller of new and run, apart from the Task.
callerVars == <<described, calls>>

\* What earlier calls of run on the Task have left behind in the pool.
priorVars == <<stale>>

\* The pending accounting of the run of src/src/task.rs, which the run of
\* src/src/task/mod.rs does not have.
counterVars == <<log_counter>>

\* The Task, the inputs of a run and the caller's own state.
baseVars == <<command, cwdOk, task, lines, unreadable, status, handler, callerVars,
              priorVars>>

\* The worker pool of the process: its number of threads and the jobs of
\* earlier runs that occupy one of them.
poolVars == <<pool>>

\* The guards of the mutexes of maybe_result and of the two buffers.  Where
\* a step takes and drops such a guard within itself, the mutex is free
\* before and after the step.
guardVars == <<held>>

\* What no step of the run of src/src/task/mod.rs changes, the steps that
\* show its guards apart.
inputVars == <<baseVars, counterVars, poolVars, guardVars>>

histVars == <<received, handlerCalls>>

lockVars == <<drainLock, drainPoisoned>>

\* ------------------------------------------------------------- run results
\* What run returns: Ok(ShellTaskOutput) of kind CompleteOutput or EarlyReturn,
\* or Err(Error) with the Error variant in error.
NoResult ==
    [kind |-> "none", error |-> "none", status |-> "none",
     stdout_lines |-> <<>>, stderr_lines |-> <<>>, value |-> NoLog]

\* ShellTaskOutput::CompleteOutput (output.rs:18-28).
CompleteOutput(st, out, err) ==
    [kind |-> "CompleteOutput", error |-> "none", status |-> st,
     stdout_lines |-> out, stderr_lines |-> err, value |-> NoLog]

\* ShellTaskOutput::EarlyReturn (output.rs:6-16).
EarlyReturnOutput(out, err, v) ==
    [kind |-> "EarlyReturn", error |-> "none", status |-> "none",
     stdout_lines |-> out, stderr_lines |-> err, value |-> v]

\* Err(Error::...) (error.rs:12-58): status is the exit_status of
\* TaskFailure and value the boxed user error of Error::EarlyReturn.
ErrorResult(e, st, v) ==
    [kind |-> "Error", error |-> e, status |-> st,
     stdout_lines |-> <<>>, stderr_lines |-> <<>>, value |-> v]

\* ---------------------------------------------------------------- helpers
LineSeq(n) == [i \in 1..n |-> i]

\* Every line of the child can be read: each is valid UTF-8 and no read of
\* the pipe fails.
AllReadable == [s \in Streams |-> {}]

\* The next item of lines() on a stream is Ok(line) (runner.rs:41 / 68).
NextReadOk(s) == (readCnt[s] + 1) \notin unreadable[s]

\* The record a reader is holding: the last line it read.
Current(s) == ShellTaskLog(s, lines[s][readCnt[s]])

\* Position of the first entry of the drain with the given variant, 0 if none
\* (Iterator::position, mod.rs:195-197 and 200-202).
Position(drain, s) ==
    IF \E i \in 1..Len(drain) : drain[i] = s
    THEN CHOOSE i \in 1..Len(drain) :
            /\ drain[i] = s
            /\ \A j \in 1..(i - 1) : drain[j] # s
    ELSE 0

\* Vec::remove(pos).
RemoveAt(drain, pos) ==
    [i \in 1..(Len(drain) - 1) |-> IF i < pos THEN drain[i] ELSE drain[i + 1]]

\* DrainRemove without its first branch: only Stdout entries are removed.
DrainRemoveStdoutOnly(drain) ==
    IF Position(drain, "Stdout") # 0 THEN RemoveAt(drain, Position(drain, "Stdout"))
    ELSE drain

\* DrainRemove without its else-if branch: only Stderr entries are removed.
DrainRemoveStderrOnly(drain) ==
    IF Position(drain, "Stderr") # 0 THEN RemoveAt(drain, Position(drain, "Stderr"))
    ELSE drain

\* The removal of mod.rs:195-205: the first Stderr entry, else the first
\* Stdout entry, else nothing.
DrainRemove(drain) ==
    IF Position(drain, "Stderr") # 0 THEN RemoveAt(drain, Position(drain, "Stderr"))
    ELSE IF Position(drain, "Stdout") # 0 THEN RemoveAt(drain, Position(drain, "Stdout"))
    ELSE drain

\* A reader registers the record it is about to send.
Register(drain, s) == Append(drain, s)

\* ------------------------------------------------------- ShellTask::new
\* Command texts are sequences of characters.
Chars == {"a", "b", " "}

RECURSIVE SeqsUpTo(_)
SeqsUpTo(n) ==
    IF n = 0 THEN {<<>>}
    ELSE SeqsUpTo(n - 1) \cup
         {Append(c, ch) : c \in {x \in SeqsUpTo(n - 1) : Len(x) = n - 1}, ch \in Chars}

Commands == SeqsUpTo(MaxCmdLen)

\* The names which::which resolves to an executable (mod.rs:51).  The empty
\* name resolves to nothing.
Installed == {<<"a">>}

Which(bin) == bin \in Installed

\* command.split(' ') (mod.rs:41): the pieces between single spaces; a text
\* without a space, the empty text included, is one piece.
RECURSIVE Split(_)
Split(text) ==
    IF text = <<>> THEN << <<>> >>
    ELSE IF Head(text) = " " THEN << <<>> >> \o Split(Tail(text))
    ELSE << <<Head(text)>> \o Split(Tail(text))[1] >> \o Tail(Split(Tail(text)))

Unbuilt ==
    [state |-> "unbuilt", error |-> "none", reason |-> "none",
     bin |-> <<>>, args |-> <<>>, full_command |-> <<>>]

TaskErr(e, why, text) ==
    [state |-> "err", error |-> e, reason |-> why,
     bin |-> <<>>, args |-> <<>>, full_command |-> text]

TaskOk(bin, args, text) ==
    [state |-> "ok", error |-> "none", reason |-> "none",
     bin |-> bin, args |-> args, full_command |-> text]

\* NewTask without the check of mod.rs:51: any first token is accepted.
NewTaskUnchecked(text, cwd) ==
    IF ~cwd THEN TaskErr("CouldNotFindCurrentDirectory", "none", text)
    ELSE IF Len(Split(text)) = 0 THEN TaskErr("InvalidTask", "empty", text)
    ELSE TaskOk(Split(text)[1], Tail(Split(text)), text)

\* ShellTask::new (mod.rs:37-68).
NewTask(text, cwd) ==
    IF ~cwd THEN TaskErr("CouldNotFindCurrentDirectory", "none", text)
    ELSE IF Len(Split(text)) = 0 THEN TaskErr("InvalidTask", "empty", text)
    ELSE IF ~Which(Split(text)[1]) THEN TaskErr("InvalidTask", "not installed", text)
    ELSE TaskOk(Split(text)[1], Tail(Split(text)), text)

\* ------------------------------------------------- several calls of run
\* The texts of the lines the child of the c-th call writes are apart from
\* those of every other call: the i-th line of a stream has text
\* (c - 1) * CallBase + i.
CallBase == MaxOut + MaxErr + 1

LineSeqOf(c, n) == [i \in 1..n |-> (c - 1) * CallBase + i]

\* The call of run whose readers produced a record.
CallOf(rec) == ((rec.text - 1) \div CallBase) + 1

\* The dispatcher job of an earlier call that is still in its receive loop
\* (alive), the call that spawned it, the handler it owns and the records it
\* has received since that call returned.
NoStale == [alive |-> FALSE, call |-> 0, handler |-> NeverTrigger, received |-> <<>>]

\* ------------------------------------- descriptor and bash_descriptor
\* What a descriptor call returned: the method called and the text.
NoDescription == [fn |-> "none", out |-> <<>>]

Description(fn, out) == [fn |-> fn, out |-> out]

\* ShellTask::descriptor (mod.rs:90-92): a copy of full_command.
Descriptor(t) == t.full_command

\* BashDescriptor without the space of the format string.
BashDescriptorNoSpace(t) == <<"$">> \o Descriptor(t)

\* ShellTask::bash_descriptor (mod.rs:95-97): format!("$ {}", descriptor()).
BashDescriptor(t) == <<"$", " ">> \o Descriptor(t)

\* ---------------------------------------- the counter of src/src/task.rs
\* Option<usize> (task.rs:138): None, or Some(n).  A negative n stands for
\* the usize n + 2^64 that a build without overflow checks wraps to.
NoCount == [some |-> FALSE, n |-> 0]

Count(n) == [some |-> TRUE, n |-> n]

\* task.rs:239-246 / 266-273: Some(s) becomes Some(s + 1), None becomes Some(1).
Increment(c) == IF c.some THEN Count(c.n + 1) ELSE Count(1)

\* task.rs:148-150: Some(count) becomes Some(count - 1), None stays None.
Decrement(c) == IF c.some THEN Count(c.n - 1) ELSE c

\* -------------------------------------------------------------- the locks
\* The mutexes of a run (mod.rs:165-175): log_drain, whose state is drainLock,
\* and maybe_result and the two buffers, whose state is held.
SlotAndBuffers == {"maybe_result", "collected_stdout_lines", "collected_stderr_lines"}

Locks == {"log_drain"} \cup SlotAndBuffers

\* The threads that take them: the dispatcher job, the reader job of each
\* stream and the thread that called run.
Threads == {"dispatcher", "orchestrator"} \cup Streams

\* The buffer of a stream (mod.rs:181-192).
BufferOf(s) == IF s = "Stdout" THEN "collected_stdout_lines" ELSE "collected_stderr_lines"

\* -------------------------------------------------------- the worker pool
\* The jobs one call of run hands to the pool: the dispatcher (mod.rs:179)
\* and one reader per stream (runner.rs:36 and 64).
JobsPerRun == Cardinality(Streams) + 1

\* A pool: the number of its threads and the number of dispatcher jobs of
\* earlier calls of run that are blocked in recv() on one of them.
Pool(n, k) == [threads |-> n, earlier |-> k]

\* A pool with a thread for each job of a run and none of them taken.
AmplePool == Pool(JobsPerRun, 0)

\* The pools of the model: one thread to one per job of a run, and up to one
\* blocked dispatcher for each earlier call.
Pools == {Pool(n, k) : n \in 1..JobsPerRun, k \in 0..(MaxCalls - 1)}

\* ------------------------------------------------------------------- Init
\* The caller has called no method of the Task yet.
InitCaller ==
    /\ described = NoDescription
    /\ calls = 1
    /\ stale = NoStale

\* The state of a run before its first step.
InitRun ==
    /\ childState = "unspawned"
    /\ emitted = [s \in Streams |-> 0]
    /\ readCnt = [s \in Streams |-> 0]
    /\ rpc = [s \in Streams |-> "idle"]
    /\ log_drain = <<>>
    /\ drainLock = "free"
    /\ drainPoisoned = FALSE
    /\ channel = <<>>
    /\ dpc = "idle"
    /\ line = NoLog
    /\ collected_stdout_lines = <<>>
    /\ collected_stderr_lines = <<>>
    /\ maybe_result = None
    /\ opc = "start"
    /\ stderr_copy = <<>>
    /\ stdout_copy = <<>>
    /\ result = NoResult
    /\ received = <<>>
    /\ handlerCalls = <<>>
    /\ slotRead = None
    /\ log_counter = NoCount
    /\ held = [l \in SlotAndBuffers |-> "free"]

\* A Task constructed from a command that resolves, about to run any child
\* program of the bounds under any handler.
InitInputs ==
    /\ command = <<"a">>
    /\ cwdOk = TRUE
    /\ task = NewTask(command, cwdOk)
    /\ lines \in {[Stdout |-> LineSeq(n), Stderr |-> LineSeq(m)] :
                    n \in 0..MaxOut, m \in 0..MaxErr}
    /\ unreadable = AllReadable
    /\ status \in {"success", "failure"}
    /\ handler \in Handlers
    /\ InitCaller
    /\ InitRun

\* Such a Task in a process whose pool has a thread for each job of the run.
Init == InitInputs /\ pool = AmplePool

\* Before ShellTask::new: any command text, with or without a current
\* directory; the child the command names writes one line to each stream and
\* the handler returns early on the stderr line.
InitNew ==
    /\ command \in Commands
    /\ cwdOk \in BOOLEAN
    /\ task = Unbuilt
    /\ lines = [Stdout |-> LineSeq(1), Stderr |-> LineSeq(1)]
    /\ unreadable = AllReadable
    /\ status \in {"success", "failure"}
    /\ handler = [stream |-> "Stderr", text |-> 1, ok |-> TRUE]
    /\ InitCaller
    /\ InitRun
    /\ pool = AmplePool

\* ShellTask::new (mod.rs:37-68).
New ==
    /\ task.state = "unbuilt"
    /\ task' = NewTask(command, cwdOk)
    /\ UNCHANGED <<counterVars, poolVars, guardVars, command, cwdOk, lines, unreadable, status, handler, callerVars,
                   priorVars, childVars,
                   readerVars, log_drain, lockVars, channel, dispVars, bufVars,
                   maybe_result, orchVars, histVars>>

\* The variables of a run: everything but the Task, the inputs and the caller.
runVars == <<childVars, readerVars, log_drain, lockVars, channel, dispVars,
             bufVars, maybe_result, orchVars, histVars>>

\* mod.rs:90-92: the caller calls descriptor() on the Task (&self).
CallDescriptor ==
    /\ task.state = "ok"
    /\ described' = Description("descriptor", Descriptor(task))
    /\ UNCHANGED <<counterVars, poolVars, guardVars, command, cwdOk, task, lines, unreadable, status, handler, calls,
                   priorVars, runVars>>

\* mod.rs:95-97: the caller calls bash_descriptor() on the Task (&self).
CallBashDescriptor ==
    /\ task.state = "ok"
    /\ described' = Description("bash_descriptor", BashDescriptor(task))
    /\ UNCHANGED <<counterVars, poolVars, guardVars, command, cwdOk, task, lines, unreadable, status, handler, calls,
                   priorVars, runVars>>

\* ----------------------------------------------------------- orchestrator
\* mod.rs:160-227: run is a method of a constructed ShellTask; the shared
\* cells are created and the dispatcher job is handed to the pool before the
\* process is spawned.
SpawnDispatcher ==
    /\ task.state = "ok"
    /\ opc = "start"
    /\ opc' = "spawn"
    /\ dpc' = "recv"
    /\ UNCHANGED <<inputVars, childVars, readerVars, log_drain, lockVars, channel,
                   line, bufVars, maybe_result, stderr_copy, stdout_copy,
                   result, slotRead, histVars>>

\* mod.rs:229-234 with runner.rs:24-91: the child is spawned with piped
\* stdout and stderr and one reader job per stream is handed to the pool.
SpawnChild ==
    /\ opc = "spawn"
    /\ opc' = "wait"
    /\ childState' = "running"
    /\ rpc' = [s \in Streams |-> "read"]
    /\ UNCHANGED <<inputVars, emitted, readCnt, log_drain, lockVars, channel,
                   dispVars, bufVars, maybe_result, stderr_copy, stdout_copy,
                   result, slotRead, histVars>>

\* runner.rs:28-31 and the ? of mod.rs:234: spawn fails and run returns
\* CouldNotSpawn.
SpawnFails ==
    /\ opc = "spawn"
    /\ opc' = "done"
    /\ result' = ErrorResult("CouldNotSpawn", "none", NoLog)
    /\ UNCHANGED <<inputVars, childVars, readerVars, log_drain, lockVars, channel,
                   dispVars, bufVars, maybe_result, stderr_copy, stdout_copy,
                   slotRead, histVars>>

\* mod.rs:236-242: wait_with_output returns once the child has exited (the
\* pipes were taken by the readers, so it collects no output itself).
WaitChild ==
    /\ opc = "wait"
    /\ childState = "exited"
    /\ opc' = "barrier"
    /\ UNCHANGED <<inputVars, childVars, readerVars, log_drain, lockVars, channel,
                   dispVars, bufVars, maybe_result, stderr_copy, stdout_copy,
                   result, slotRead, histVars>>

\* What one poll of mod.rs:246-256 decides: try_lock succeeds only on a free,
\* unpoisoned mutex, and the loop is left only on an empty drain.
BarrierClear(drain, lock, poisoned) ==
    /\ lock = "free"
    /\ ~poisoned
    /\ drain = <<>>

\* mod.rs:245-257: one iteration of the polling loop.
BarrierPoll ==
    /\ opc = "barrier"
    /\ opc' = IF BarrierClear(log_drain, drainLock, drainPoisoned)
              THEN "assemble" ELSE "barrier"
    /\ UNCHANGED <<inputVars, childVars, readerVars, log_drain, lockVars, channel,
                   dispVars, bufVars, maybe_result, stderr_copy, stdout_copy,
                   result, slotRead, histVars>>

\* mod.rs:236-242: wait_with_output fails and the ? returns CouldNotWait.
WaitFails ==
    /\ opc = "wait"
    /\ opc' = "done"
    /\ result' = ErrorResult("CouldNotWait", "none", NoLog)
    /\ UNCHANGED <<inputVars, childVars, readerVars, log_drain, lockVars, channel,
                   dispVars, bufVars, maybe_result, stderr_copy, stdout_copy,
                   slotRead, histVars>>

\* ReturnTaskFailure taken from inside the polling loop, whatever the drain
\* holds.
ReturnTaskFailureUnpolled ==
    /\ opc \in {"barrier", "assemble"}
    /\ status # "success"
    /\ opc' = "done"
    /\ result' = ErrorResult("TaskFailure", status, NoLog)
    /\ UNCHANGED <<inputVars, childVars, readerVars, log_drain, lockVars, channel,
                   dispVars, bufVars, maybe_result, stderr_copy, stdout_copy,
                   slotRead, histVars>>

\* mod.rs:259 and 277-282: a failed exit status returns TaskFailure.
ReturnTaskFailure ==
    /\ opc = "assemble"
    /\ status # "success"
    /\ opc' = "done"
    /\ result' = ErrorResult("TaskFailure", status, NoLog)
    /\ UNCHANGED <<inputVars, childVars, readerVars, log_drain, lockVars, channel,
                   dispVars, bufVars, maybe_result, stderr_copy, stdout_copy,
                   slotRead, histVars>>

\* mod.rs:259-260.
CopyStderr ==
    /\ opc = "assemble"
    /\ status = "success"
    /\ opc' = "copyStdout"
    /\ stderr_copy' = collected_stderr_lines
    /\ UNCHANGED <<inputVars, childVars, readerVars, log_drain, lockVars, channel,
                   dispVars, bufVars, maybe_result, stdout_copy, result, slotRead,
                   histVars>>

\* mod.rs:261.
CopyStdout ==
    /\ opc = "copyStdout"
    /\ opc' = "takeResult"
    /\ stdout_copy' = collected_stdout_lines
    /\ UNCHANGED <<inputVars, childVars, readerVars, log_drain, lockVars, channel,
                   dispVars, bufVars, maybe_result, stderr_copy, result, slotRead,
                   histVars>>

\* Assemble with the user error dropped: Err(e) in the slot is treated as an
\* empty slot.
AssembleIgnoresErr(slot, st, out, err) ==
    IF slot.some /\ slot.ok THEN EarlyReturnOutput(out, err, slot.val)
    ELSE CompleteOutput(st, out, err)

\* mod.rs:262-276: the value run returns on a successful exit, from what
\* take() found in maybe_result.
Assemble(slot, st, out, err) ==
    IF ~slot.some THEN CompleteOutput(st, out, err)
    ELSE IF slot.ok THEN EarlyReturnOutput(out, err, slot.val)
    ELSE ErrorResult("EarlyReturn", "none", slot.val)

\* mod.rs:262-276.
TakeResult ==
    /\ opc = "takeResult"
    /\ opc' = "done"
    /\ slotRead' = maybe_result
    /\ maybe_result' = None
    /\ result' = Assemble(maybe_result, status, stdout_copy, stderr_copy)
    /\ UNCHANGED <<inputVars, childVars, readerVars, log_drain, lockVars, channel,
                   dispVars, bufVars, stderr_copy, stdout_copy, histVars>>

\* ------------------------------------------------------------------ child
\* The child writes its next line to one of its pipes.
ChildEmit(s) ==
    /\ childState = "running"
    /\ emitted[s] < Len(lines[s])
    /\ emitted' = [emitted EXCEPT ![s] = @ + 1]
    /\ UNCHANGED <<inputVars, childState, readerVars, log_drain, lockVars, channel,
                   dispVars, bufVars, maybe_result, orchVars, histVars>>

\* The child exits after its last line; its ends of the pipes close.
ChildExit ==
    /\ childState = "running"
    /\ \A s \in Streams : emitted[s] = Len(lines[s])
    /\ childState' = "exited"
    /\ UNCHANGED <<inputVars, emitted, readerVars, log_drain, lockVars, channel,
                   dispVars, bufVars, maybe_result, orchVars, histVars>>

\* ---------------------------------------------------------------- readers
\* runner.rs:40 / 67: lines() ends at EOF, once the child has exited and the
\* pipe is empty; the job returns.
ReaderEof(s) ==
    /\ rpc[s] = "read"
    /\ readCnt[s] = emitted[s]
    /\ childState = "exited"
    /\ rpc' = [rpc EXCEPT ![s] = "eof"]
    /\ UNCHANGED <<inputVars, childVars, readCnt, log_drain, lockVars, channel,
                   dispVars, bufVars, maybe_result, orchVars, histVars>>

\* runner.rs:40-54 / 67-81: lines() yields the next line of the pipe and,
\* under the lock, the record is registered.  (Nothing but this reader sees
\* the pipe being read, so the read is taken together with the registration.)
ReaderRegister(s) ==
    /\ rpc[s] = "read"
    /\ readCnt[s] < emitted[s]
    /\ NextReadOk(s)
    /\ drainLock = "free"
    /\ ~drainPoisoned
    /\ readCnt' = [readCnt EXCEPT ![s] = @ + 1]
    /\ log_drain' = Register(log_drain, s)
    /\ rpc' = [rpc EXCEPT ![s] = "send"]
    /\ UNCHANGED <<inputVars, childVars, lockVars, channel, dispVars, bufVars,
                   maybe_result, orchVars, histVars>>

\* runner.rs:40-41 / 67-68: lines() yields an Err for a line that is not
\* valid UTF-8; the if let of the closure does nothing with it and for_each
\* goes on to the next item.
ReaderSkip(s) ==
    /\ rpc[s] = "read"
    /\ readCnt[s] < emitted[s]
    /\ ~NextReadOk(s)
    /\ readCnt' = [readCnt EXCEPT ![s] = @ + 1]
    /\ UNCHANGED <<inputVars, childVars, rpc, log_drain, lockVars, channel, dispVars,
                   bufVars, maybe_result, orchVars, histVars>>

\* ReaderSend with the record sent twice.
ReaderSendTwice(s) ==
    /\ rpc[s] = "send"
    /\ channel' = Append(Append(channel, Current(s)), Current(s))
    /\ rpc' = [rpc EXCEPT ![s] = "read"]
    /\ UNCHANGED <<inputVars, childVars, readCnt, log_drain, lockVars, dispVars,
                   bufVars, maybe_result, orchVars, histVars>>

\* runner.rs:56-58 / 83-85: the record is sent on the unbounded channel.
ReaderSend(s) ==
    /\ rpc[s] = "send"
    /\ channel' = Append(channel, Current(s))
    /\ rpc' = [rpc EXCEPT ![s] = "read"]
    /\ UNCHANGED <<inputVars, childVars, readCnt, log_drain, lockVars, dispVars,
                   bufVars, maybe_result, orchVars, histVars>>

\* ------------------------------------------------------------- dispatcher
\* mod.rs:180-192: recv() yields the oldest record and its text is pushed to
\* the buffer of its stream.
DispRecv ==
    /\ dpc = "recv"
    /\ channel # <<>>
    /\ line' = Head(channel)
    /\ channel' = Tail(channel)
    /\ received' = Append(received, Head(channel))
    /\ collected_stdout_lines' =
         IF Head(channel).stream = "Stdout"
         THEN Append(collected_stdout_lines, Head(channel).text)
         ELSE collected_stdout_lines
    /\ collected_stderr_lines' =
         IF Head(channel).stream = "Stderr"
         THEN Append(collected_stderr_lines, Head(channel).text)
         ELSE collected_stderr_lines
    /\ dpc' = "lock"
    /\ UNCHANGED <<inputVars, childVars, readerVars, log_drain, lockVars,
                   maybe_result, orchVars, handlerCalls>>

\* DispLockDrain with the guard dropped right after the removal, before the
\* handler is invoked.
DispLockDrainReleased ==
    /\ dpc = "lock"
    /\ drainLock = "free"
    /\ ~drainPoisoned
    /\ drainLock' = "free"
    /\ log_drain' = DrainRemove(log_drain)
    /\ dpc' = "handle"
    /\ UNCHANGED <<inputVars, childVars, readerVars, drainPoisoned, channel, line,
                   bufVars, maybe_result, orchVars, histVars>>

\* mod.rs:194-205: the drain is locked and one entry is removed; the guard
\* stays held.
DispLockDrain ==
    /\ dpc = "lock"
    /\ drainLock = "free"
    /\ ~drainPoisoned
    /\ drainLock' = "dispatcher"
    /\ log_drain' = DrainRemove(log_drain)
    /\ dpc' = "handle"
    /\ UNCHANGED <<inputVars, childVars, readerVars, drainPoisoned, channel, line,
                   bufVars, maybe_result, orchVars, histVars>>

\* DispPassthrough with the handler invoked a second time on the record.
DispPassthroughTwice ==
    /\ dpc = "handle"
    /\ ApplyHandler(handler, line).kind = "Passthrough"
    /\ handlerCalls' = Append(Append(handlerCalls, line), line)
    /\ dpc' = "recv"
    /\ drainLock' = "free"
    /\ UNCHANGED <<inputVars, childVars, readerVars, log_drain, drainPoisoned,
                   channel, line, bufVars, maybe_result, orchVars, received>>

\* mod.rs:206 and 215: the handler is invoked on the record with the guard
\* held; on Passthrough the loop continues and the guard is dropped.
DispPassthrough ==
    /\ dpc = "handle"
    /\ ApplyHandler(handler, line).kind = "Passthrough"
    /\ handlerCalls' = Append(handlerCalls, line)
    /\ dpc' = "recv"
    /\ drainLock' = "free"
    /\ UNCHANGED <<inputVars, childVars, readerVars, log_drain, drainPoisoned,
                   channel, line, bufVars, maybe_result, orchVars, received>>

\* DispEarlyReturn without the break of mod.rs:211: the EarlyReturn is stored
\* and the loop goes on.
DispEarlyReturnContinues ==
    /\ dpc = "handle"
    /\ ApplyHandler(handler, line).kind = "EarlyReturn"
    /\ handlerCalls' = Append(handlerCalls, line)
    /\ maybe_result' = IF ~maybe_result.some
                       THEN Some(ApplyHandler(handler, line).ok,
                                 ApplyHandler(handler, line).val)
                       ELSE maybe_result
    /\ dpc' = "recv"
    /\ drainLock' = "free"
    /\ UNCHANGED <<inputVars, childVars, readerVars, log_drain, drainPoisoned,
                   channel, line, bufVars, orchVars, received>>

\* mod.rs:206-214: the handler is invoked on the record with the guard held;
\* its EarlyReturn is stored if the slot is empty and the loop is left, and on
\* a populated slot the loop goes on.  The guard is dropped.
DispEarlyReturn ==
    /\ dpc = "handle"
    /\ ApplyHandler(handler, line).kind = "EarlyReturn"
    /\ handlerCalls' = Append(handlerCalls, line)
    /\ IF ~maybe_result.some
       THEN /\ maybe_result' = Some(ApplyHandler(handler, line).ok,
                                    ApplyHandler(handler, line).val)
            /\ dpc' = "done"
       ELSE /\ maybe_result' = maybe_result
            /\ dpc' = "recv"
    /\ drainLock' = "free"
    /\ UNCHANGED <<inputVars, childVars, readerVars, log_drain, drainPoisoned,
                   channel, line, bufVars, orchVars, received>>

\* ------------------------------------------- the run of src/src/task.rs
\* The run of src/src/task.rs keeps a count of the pending records where the
\* run of src/src/task/mod.rs keeps a Vec, keeps no buffers of lines and
\* returns Result<Option<T>>.  Its first steps are those of the other run:
\* the dispatcher job is handed to the pool (task.rs:145, SpawnDispatcher),
\* the child is spawned with one reader job per stream (task.rs:166-172 and
\* 217-285, SpawnChild and SpawnFails), and the child is waited for
\* (task.rs:174-177, WaitChild).  drainLock and drainPoisoned are here the
\* state of the Mutex of log_counter.

\* Ok(None) (task.rs:192).
OkNone ==
    [kind |-> "OkNone", error |-> "none", status |-> "none",
     stdout_lines |-> <<>>, stderr_lines |-> <<>>, value |-> NoLog]

\* Ok(Some(t)) (task.rs:190).
OkSome(v) ==
    [kind |-> "OkSome", error |-> "none", status |-> "none",
     stdout_lines |-> <<>>, stderr_lines |-> <<>>, value |-> v]

\* task.rs:189-193: the value run returns on a successful exit, from what
\* take() found in maybe_result.
CounterAssemble(slot) ==
    IF ~slot.some THEN OkNone
    ELSE IF slot.ok THEN OkSome(slot.val)
    ELSE ErrorResult("EarlyReturn", "none", slot.val)

\* What one poll of task.rs:182-185 decides: the loop is left only on
\* Ok(Some(0)), a try_lock that succeeded on a counter that is Some(0).
CounterBarrierClear(counter, lock, poisoned) ==
    /\ lock = "free"
    /\ ~poisoned
    /\ counter = Count(0)

\* task.rs:180-186: one iteration of the polling loop.
CounterBarrierPoll ==
    /\ opc = "barrier"
    /\ opc' = IF CounterBarrierClear(log_counter, drainLock, drainPoisoned)
              THEN "assemble" ELSE "barrier"
    /\ UNCHANGED <<inputVars, childVars, readerVars, log_drain, lockVars, channel,
                   dispVars, bufVars, maybe_result, stderr_copy, stdout_copy,
                   result, slotRead, histVars>>

\* task.rs:188 and 194-199: a failed exit status returns TaskFailure.
CounterReturnTaskFailure ==
    /\ opc = "assemble"
    /\ status # "success"
    /\ opc' = "done"
    /\ result' = ErrorResult("TaskFailure", status, NoLog)
    /\ UNCHANGED <<inputVars, childVars, readerVars, log_drain, lockVars, channel,
                   dispVars, bufVars, maybe_result, stderr_copy, stdout_copy,
                   slotRead, histVars>>

\* task.rs:188-193: on a successful exit the slot is locked and taken.
CounterTakeResult ==
    /\ opc = "assemble"
    /\ status = "success"
    /\ opc' = "done"
    /\ slotRead' = maybe_result
    /\ maybe_result' = None
    /\ result' = CounterAssemble(maybe_result)
    /\ UNCHANGED <<inputVars, childVars, readerVars, log_drain, lockVars, channel,
                   dispVars, bufVars, stderr_copy, stdout_copy, histVars>>

\* task.rs:234-248 / 261-275: lines() yields the next line of the pipe and,
\* under the lock, the counter is incremented; a poisoned lock panics the job.
CounterReaderRegister(s) ==
    /\ rpc[s] = "read"
    /\ readCnt[s] < emitted[s]
    /\ NextReadOk(s)
    /\ drainLock = "free"
    /\ readCnt' = [readCnt EXCEPT ![s] = @ + 1]
    /\ IF drainPoisoned
       THEN /\ rpc' = [rpc EXCEPT ![s] = "panicked"]
            /\ log_counter' = log_counter
       ELSE /\ rpc' = [rpc EXCEPT ![s] = "send"]
            /\ log_counter' = Increment(log_counter)
    /\ UNCHANGED <<baseVars, poolVars, guardVars, childVars, log_drain, lockVars, channel, dispVars,
                   bufVars, maybe_result, orchVars, histVars>>

\* task.rs:146-147: recv() yields the oldest record.
CounterDispRecv ==
    /\ dpc = "recv"
    /\ channel # <<>>
    /\ line' = Head(channel)
    /\ channel' = Tail(channel)
    /\ received' = Append(received, Head(channel))
    /\ dpc' = "lock"
    /\ UNCHANGED <<inputVars, childVars, readerVars, log_drain, lockVars, bufVars,
                   maybe_result, orchVars, handlerCalls>>

\* task.rs:148-150: the counter is locked, decremented if it is Some, and
\* unlocked.  On Some(0) the subtraction overflows: with overflow checks the
\* job panics holding the guard, without them the count wraps.
CounterDispDecrement ==
    /\ dpc = "lock"
    /\ drainLock = "free"
    /\ \E overflow_checks \in BOOLEAN :
         IF drainPoisoned \/ (log_counter = Count(0) /\ overflow_checks)
         THEN /\ dpc' = "panicked"
              /\ drainPoisoned' = TRUE
              /\ log_counter' = log_counter
         ELSE /\ dpc' = "handle"
              /\ drainPoisoned' = drainPoisoned
              /\ log_counter' = Decrement(log_counter)
    /\ UNCHANGED <<baseVars, poolVars, guardVars, childVars, readerVars, log_drain, drainLock, channel,
                   line, bufVars, maybe_result, orchVars, histVars>>

\* task.rs:151 and 159: the handler is invoked on the record, no lock held;
\* on Passthrough the loop continues.
CounterDispPassthrough ==
    /\ dpc = "handle"
    /\ ApplyHandler(handler, line).kind = "Passthrough"
    /\ handlerCalls' = Append(handlerCalls, line)
    /\ dpc' = "recv"
    /\ UNCHANGED <<inputVars, childVars, readerVars, log_drain, lockVars, channel,
                   line, bufVars, maybe_result, orchVars, received>>

\* task.rs:151-152: the handler is invoked on the record, no lock held, and
\* returns EarlyReturn.
CounterDispEarlyReturn ==
    /\ dpc = "handle"
    /\ ApplyHandler(handler, line).kind = "EarlyReturn"
    /\ handlerCalls' = Append(handlerCalls, line)
    /\ dpc' = "store"
    /\ UNCHANGED <<inputVars, childVars, readerVars, log_drain, lockVars, channel,
                   line, bufVars, maybe_result, orchVars, received>>

\* task.rs:153-157: the slot is locked; the EarlyReturn is stored if the slot
\* is empty and the loop is left, and on a populated slot the loop goes on.
CounterDispStore ==
    /\ dpc = "store"
    /\ IF ~maybe_result.some
       THEN /\ maybe_result' = Some(ApplyHandler(handler, line).ok,
                                    ApplyHandler(handler, line).val)
            /\ dpc' = "done"
       ELSE /\ maybe_result' = maybe_result
            /\ dpc' = "recv"
    /\ UNCHANGED <<inputVars, childVars, readerVars, log_drain, lockVars, channel,
                   line, bufVars, orchVars, histVars>>

\* ------------------------------------------------ the threads of the pool
\* rayon::spawn puts a job in the queue of the pool, and the job starts when
\* a thread of the pool takes it.  A job keeps its thread until its closure
\* returns: a reader blocked in a read or on the lock and a dispatcher blocked
\* in recv() keep theirs.
Running ==
    pool.earlier
        + (IF dpc \in {"recv", "lock", "handle"} THEN 1 ELSE 0)
        + Cardinality({s \in Streams : rpc[s] \in {"read", "send"}})

ThreadIdle == Running < pool.threads

\* mod.rs:179: the dispatcher job is put in the queue of the pool.
PoolSpawnDispatcher ==
    /\ task.state = "ok"
    /\ opc = "start"
    /\ opc' = "spawn"
    /\ dpc' = "queued"
    /\ UNCHANGED <<inputVars, childVars, readerVars, log_drain, lockVars, channel,
                   line, bufVars, maybe_result, stderr_copy, stdout_copy,
                   result, slotRead, histVars>>

\* mod.rs:229-234 with runner.rs:24-91: the child is spawned with piped
\* stdout and stderr and one reader job per stream is put in the queue of
\* the pool.
PoolSpawnChild ==
    /\ opc = "spawn"
    /\ opc' = "wait"
    /\ childState' = "running"
    /\ rpc' = [s \in Streams |-> "queued"]
    /\ UNCHANGED <<inputVars, emitted, readCnt, log_drain, lockVars, channel,
                   dispVars, bufVars, maybe_result, stderr_copy, stdout_copy,
                   result, slotRead, histVars>>

\* mod.rs:179-180: an idle thread of the pool takes the dispatcher job, which
\* enters its receive loop.
PoolStartDispatcher ==
    /\ dpc = "queued"
    /\ ThreadIdle
    /\ dpc' = "recv"
    /\ UNCHANGED <<inputVars, childVars, readerVars, log_drain, lockVars, channel,
                   line, bufVars, maybe_result, orchVars, histVars>>

\* runner.rs:36-40 / 64-67: an idle thread of the pool takes a reader job,
\* which starts reading its pipe.
PoolStartReader(s) ==
    /\ rpc[s] = "queued"
    /\ ThreadIdle
    /\ rpc' = [rpc EXCEPT ![s] = "read"]
    /\ UNCHANGED <<inputVars, childVars, readCnt, log_drain, lockVars, channel,
                   dispVars, bufVars, maybe_result, orchVars, histVars>>

\* ------------------------------------------- the run, lock by lock
\* The steps of the run of src/src/task/mod.rs with every lock() a step of
\* its own, which waits for the mutex to be free, and every guard held to the
\* step that drops it.
Owner(l) == IF l = "log_drain" THEN drainLock ELSE held[l]

NonBase == <<counterVars, poolVars>>

\* mod.rs:180: recv() yields the oldest record.
LkDispRecv ==
    /\ dpc = "recv"
    /\ channel # <<>>
    /\ line' = Head(channel)
    /\ channel' = Tail(channel)
    /\ received' = Append(received, Head(channel))
    /\ dpc' = "lockBuffer"
    /\ UNCHANGED <<inputVars, childVars, readerVars, log_drain, lockVars, bufVars,
                   maybe_result, orchVars, handlerCalls>>

\* mod.rs:183 / 188: lock() on the buffer of the record's stream.
LkDispLockBuffer ==
    /\ dpc = "lockBuffer"
    /\ held[BufferOf(line.stream)] = "free"
    /\ held' = [held EXCEPT ![BufferOf(line.stream)] = "dispatcher"]
    /\ dpc' = "push"
    /\ UNCHANGED <<baseVars, NonBase, childVars, readerVars, log_drain, lockVars,
                   channel, line, bufVars, maybe_result, orchVars, histVars>>

\* mod.rs:184-185 / 189-190: the text is pushed and the guard dropped.
LkDispPush ==
    /\ dpc = "push"
    /\ collected_stdout_lines' =
         IF line.stream = "Stdout" THEN Append(collected_stdout_lines, line.text)
         ELSE collected_stdout_lines
    /\ collected_stderr_lines' =
         IF line.stream = "Stderr" THEN Append(collected_stderr_lines, line.text)
         ELSE collected_stderr_lines
    /\ held' = [held EXCEPT ![BufferOf(line.stream)] = "free"]
    /\ dpc' = "lock"
    /\ UNCHANGED <<baseVars, NonBase, childVars, readerVars, log_drain, lockVars,
                   channel, line, maybe_result, orchVars, histVars>>

\* mod.rs:206-207: the handler is invoked on the record with the guard of
\* log_drain held and returns EarlyReturn.
LkDispEarlyReturn ==
    /\ dpc = "handle"
    /\ ApplyHandler(handler, line).kind = "EarlyReturn"
    /\ handlerCalls' = Append(handlerCalls, line)
    /\ dpc' = "lockSlot"
    /\ UNCHANGED <<inputVars, childVars, readerVars, log_drain, lockVars, channel,
                   line, bufVars, maybe_result, orchVars, received>>

\* mod.rs:208: lock() on maybe_result, with the guard of log_drain held.
LkDispLockSlot ==
    /\ dpc = "lockSlot"
    /\ held["maybe_result"] = "free"
    /\ held' = [held EXCEPT !["maybe_result"] = "dispatcher"]
    /\ dpc' = "store"
    /\ UNCHANGED <<baseVars, NonBase, childVars, readerVars, log_drain, lockVars,
                   channel, line, bufVars, maybe_result, orchVars, histVars>>

\* LkDispStore with the guard of log_drain leaked: only the guard of
\* maybe_result is dropped.
LkDispStoreKeepsDrain ==
    /\ dpc = "store"
    /\ IF ~maybe_result.some
       THEN /\ maybe_result' = Some(ApplyHandler(handler, line).ok,
                                    ApplyHandler(handler, line).val)
            /\ dpc' = "done"
       ELSE /\ maybe_result' = maybe_result
            /\ dpc' = "recv"
    /\ held' = [held EXCEPT !["maybe_result"] = "free"]
    /\ UNCHANGED <<baseVars, NonBase, childVars, readerVars, log_drain, lockVars,
                   channel, line, bufVars, orchVars, histVars>>

\* mod.rs:209-214: the EarlyReturn is stored if the slot is empty and the loop
\* is left, and on a populated slot the loop goes on; both guards are dropped.
LkDispStore ==
    /\ dpc = "store"
    /\ IF ~maybe_result.some
       THEN /\ maybe_result' = Some(ApplyHandler(handler, line).ok,
                                    ApplyHandler(handler, line).val)
            /\ dpc' = "done"
       ELSE /\ maybe_result' = maybe_result
            /\ dpc' = "recv"
    /\ held' = [held EXCEPT !["maybe_result"] = "free"]
    /\ drainLock' = "free"
    /\ UNCHANGED <<baseVars, NonBase, childVars, readerVars, log_drain, drainPoisoned,
                   channel, line, bufVars, orchVars, histVars>>

\* runner.rs:40-44 / 67-71: lines() yields the next line of the pipe and the
\* reader locks log_drain.
LkReaderLock(s) ==
    /\ rpc[s] = "read"
    /\ readCnt[s] < emitted[s]
    /\ NextReadOk(s)
    /\ drainLock = "free"
    /\ ~drainPoisoned
    /\ drainLock' = s
    /\ readCnt' = [readCnt EXCEPT ![s] = @ + 1]
    /\ rpc' = [rpc EXCEPT ![s] = "register"]
    /\ UNCHANGED <<inputVars, childVars, log_drain, drainPoisoned, channel, dispVars,
                   bufVars, maybe_result, orchVars, histVars>>

\* runner.rs:45-54 / 72-81: the record is registered and the guard dropped.
LkReaderRegister(s) ==
    /\ rpc[s] = "register"
    /\ log_drain' = Register(log_drain, s)
    /\ drainLock' = "free"
    /\ rpc' = [rpc EXCEPT ![s] = "send"]
    /\ UNCHANGED <<inputVars, childVars, readCnt, drainPoisoned, channel, dispVars,
                   bufVars, maybe_result, orchVars, histVars>>

\* mod.rs:259-260: on a successful exit, lock() on collected_stderr_lines.
LkLockStderr ==
    /\ opc = "assemble"
    /\ status = "success"
    /\ held["collected_stderr_lines"] = "free"
    /\ held' = [held EXCEPT !["collected_stderr_lines"] = "orchestrator"]
    /\ opc' = "holdStderr"
    /\ UNCHANGED <<baseVars, NonBase, childVars, readerVars, log_drain, lockVars,
                   channel, dispVars, bufVars, maybe_result, stderr_copy, stdout_copy,
                   result, slotRead, histVars>>

\* mod.rs:260: to_vec() and the guard is dropped.
LkCopyStderr ==
    /\ opc = "holdStderr"
    /\ stderr_copy' = collected_stderr_lines
    /\ held' = [held EXCEPT !["collected_stderr_lines"] = "free"]
    /\ opc' = "lockStdout"
    /\ UNCHANGED <<baseVars, NonBase, childVars, readerVars, log_drain, lockVars,
                   channel, dispVars, bufVars, maybe_result, stdout_copy,
                   result, slotRead, histVars>>

\* mod.rs:261: lock() on collected_stdout_lines.
LkLockStdout ==
    /\ opc = "lockStdout"
    /\ held["collected_stdout_lines"] = "free"
    /\ held' = [held EXCEPT !["collected_stdout_lines"] = "orchestrator"]
    /\ opc' = "holdStdout"
    /\ UNCHANGED <<baseVars, NonBase, childVars, readerVars, log_drain, lockVars,
                   channel, dispVars, bufVars, maybe_result, stderr_copy, stdout_copy,
                   result, slotRead, histVars>>

\* mod.rs:261: to_vec() and the guard is dropped.
LkCopyStdout ==
    /\ opc = "holdStdout"
    /\ stdout_copy' = collected_stdout_lines
    /\ held' = [held EXCEPT !["collected_stdout_lines"] = "free"]
    /\ opc' = "lockSlot"
    /\ UNCHANGED <<baseVars, NonBase, childVars, readerVars, log_drain, lockVars,
                   channel, dispVars, bufVars, maybe_result, stderr_copy,
                   result, slotRead, histVars>>

\* mod.rs:262: lock() on maybe_result.
LkLockSlot ==
    /\ opc = "lockSlot"
    /\ held["maybe_result"] = "free"
    /\ held' = [held EXCEPT !["maybe_result"] = "orchestrator"]
    /\ opc' = "holdSlot"
    /\ UNCHANGED <<baseVars, NonBase, childVars, readerVars, log_drain, lockVars,
                   channel, dispVars, bufVars, maybe_result, stderr_copy, stdout_copy,
                   result, slotRead, histVars>>

\* mod.rs:262-276: take(), the result is built and the guard dropped.
LkTakeResult ==
    /\ opc = "holdSlot"
    /\ opc' = "done"
    /\ slotRead' = maybe_result
    /\ maybe_result' = None
    /\ result' = Assemble(maybe_result, status, stdout_copy, stderr_copy)
    /\ held' = [held EXCEPT !["maybe_result"] = "free"]
    /\ UNCHANGED <<baseVars, NonBase, childVars, readerVars, log_drain, lockVars,
                   channel, dispVars, bufVars, stderr_copy, stdout_copy, histVars>>

\* The mutex a thread is at a lock() of: the dispatcher at mod.rs:183 / 188,
\* 194 and 208, a reader at runner.rs:44 / 71 and the calling thread at
\* mod.rs:260-262.  try_lock (mod.rs:247) blocks on nothing.
LockingAt(t) ==
    IF t = "dispatcher"
    THEN IF dpc = "lockBuffer" THEN {BufferOf(line.stream)}
         ELSE IF dpc = "lock" THEN {"log_drain"}
         ELSE IF dpc = "lockSlot" THEN {"maybe_result"}
         ELSE {}
    ELSE IF t = "orchestrator"
    THEN IF opc = "assemble" /\ status = "success" THEN {"collected_stderr_lines"}
         ELSE IF opc = "lockStdout" THEN {"collected_stdout_lines"}
         ELSE IF opc = "lockSlot" THEN {"maybe_result"}
         ELSE {}
    ELSE IF rpc[t] = "read" /\ readCnt[t] < emitted[t] /\ NextReadOk(t)
         THEN {"log_drain"}
         ELSE {}

\* A thread waits for the thread that holds the mutex it is blocked on.
WaitsFor == {w \in Threads \X Threads : \E l \in LockingAt(w[1]) : Owner(l) = w[2]}

\* One more link of each chain of waits.
Extend(R) == R \cup {<<z[1][1], z[2][2]>> : z \in {y \in R \X R : y[1][2] = y[2][1]}}

\* The chains of waits: Threads has four members.
WaitChains == Extend(Extend(WaitsFor))

\* ------------------------------------------------ the channel's producers
\* The Senders of the Task's channel that are alive: the log_sender field of
\* the Task (mod.rs:31), for as long as the Task lives, and the clone each
\* reader job owns (mod.rs:232, runner.rs:37) until the job ends.
Producers ==
    (IF task.state = "ok" THEN 1 ELSE 0)
        + Cardinality({s \in Streams : rpc[s] \in {"read", "send"}})

\* mod.rs:180: recv() is an Err once the channel is empty and every Sender is
\* dropped; the while let ends and the dispatcher job returns.
DispDisconnected ==
    /\ dpc = "recv"
    /\ channel = <<>>
    /\ Producers = 0
    /\ dpc' = "done"
    /\ UNCHANGED <<inputVars, childVars, readerVars, log_drain, lockVars, channel,
                   line, bufVars, maybe_result, orchVars, histVars>>

\* The caller drops the Task, and with it the Task's log_sender and
\* log_receiver; run borrows the Task, so it has returned.
DropTask ==
    /\ task.state = "ok"
    /\ opc = "done"
    /\ task' = [task EXCEPT !.state = "dropped"]
    /\ UNCHANGED <<counterVars, poolVars, guardVars, command, cwdOk, lines, unreadable, status, handler, callerVars,
                   priorVars, runVars>>

\* --------------------------------------------------- a further call of run
\* The handlers of a further call: Passthrough on every record, or
\* EarlyReturn on the first stdout line of that call's child.
HandlersOf(c) ==
    {NeverTrigger, [stream |-> "Stdout", text |-> (c - 1) * CallBase + 1, ok |-> TRUE]}

\* mod.rs:160-177: the caller calls run again on the same Task, after the
\* earlier call has returned and its reader jobs have ended.  The call makes
\* its own log_drain, maybe_result and buffers (mod.rs:165-175); the channel
\* is the Task's (mod.rs:57, 168, 232) and keeps what is on it.  The earlier
\* call's dispatcher, unless it left its loop, is still in recv().
RunAgain ==
    /\ task.state = "ok"
    /\ opc = "done"
    /\ calls < MaxCalls
    /\ \A s \in Streams : rpc[s] \in {"idle", "eof"}
    /\ dpc \in {"recv", "done"}
    /\ ~(stale.alive /\ dpc = "recv")
    /\ calls' = calls + 1
    /\ stale' = IF dpc = "recv"
                THEN [alive |-> TRUE, call |-> calls, handler |-> handler,
                      received |-> <<>>]
                ELSE stale
    /\ lines' \in {[Stdout |-> LineSeqOf(calls + 1, n), Stderr |-> LineSeqOf(calls + 1, m)] :
                     n \in 0..1, m \in 0..1}
    /\ unreadable' = AllReadable
    /\ status' \in {"success", "failure"}
    /\ handler' \in HandlersOf(calls + 1)
    /\ childState' = "unspawned"
    /\ emitted' = [s \in Streams |-> 0]
    /\ readCnt' = [s \in Streams |-> 0]
    /\ rpc' = [s \in Streams |-> "idle"]
    /\ log_drain' = <<>>
    /\ drainLock' = "free"
    /\ drainPoisoned' = FALSE
    /\ dpc' = "idle"
    /\ line' = NoLog
    /\ collected_stdout_lines' = <<>>
    /\ collected_stderr_lines' = <<>>
    /\ maybe_result' = None
    /\ opc' = "start"
    /\ stderr_copy' = <<>>
    /\ stdout_copy' = <<>>
    /\ result' = NoResult
    /\ received' = <<>>
    /\ handlerCalls' = <<>>
    /\ slotRead' = None
    /\ UNCHANGED <<counterVars, poolVars, guardVars, command, cwdOk, task, described, channel>>

\* mod.rs:180-216 in the dispatcher of the earlier call: recv() yields the
\* oldest record of the Task's channel; the text goes to that call's buffer,
\* an entry leaves that call's drain and that call's handler is invoked, and
\* on its EarlyReturn the job leaves its loop (its slot is empty).
StaleRecv ==
    /\ stale.alive
    /\ channel # <<>>
    /\ channel' = Tail(channel)
    /\ stale' = [stale EXCEPT
                   !.received = Append(@, Head(channel)),
                   !.alive = ApplyHandler(stale.handler, Head(channel)).kind
                                = "Passthrough"]
    /\ UNCHANGED <<counterVars, poolVars, guardVars, command, cwdOk, task, lines, unreadable, status, handler,
                   callerVars, childVars, readerVars, log_drain, lockVars, dispVars,
                   bufVars, maybe_result, orchVars, histVars>>

\* ------------------------------------------------- panics and poisoning
\* The boxed Error::PoisonedLog of mod.rs:220.
PoisonedLog == [stream |-> "PoisonedLog", text |-> 0]

\* mod.rs:206: the handler panics.  The dispatcher job unwinds with the guard
\* of mod.rs:194 held, which poisons log_drain's mutex, and ends.  (A job
\* that panics is modelled as ended; a pool without a panic handler aborts
\* the process instead, which ends the run's caller as well.)
HandlerPanics ==
    /\ dpc = "handle"
    /\ dpc' = "panicked"
    /\ handlerCalls' = Append(handlerCalls, line)
    /\ drainLock' = "free"
    /\ drainPoisoned' = TRUE
    /\ UNCHANGED <<inputVars, childVars, readerVars, log_drain, channel, line,
                   bufVars, maybe_result, orchVars, received>>

\* runner.rs:44-52 / 72-79: a reader job panics inside its critical section,
\* with the guard held, which poisons the mutex; the job ends and its record
\* is neither registered nor sent.
ReaderPanicsLocked(s) ==
    /\ rpc[s] = "read"
    /\ readCnt[s] < emitted[s]
    /\ NextReadOk(s)
    /\ drainLock = "free"
    /\ ~drainPoisoned
    /\ readCnt' = [readCnt EXCEPT ![s] = @ + 1]
    /\ rpc' = [rpc EXCEPT ![s] = "panicked"]
    /\ drainPoisoned' = TRUE
    /\ UNCHANGED <<inputVars, childVars, log_drain, drainLock, channel, dispVars,
                   bufVars, maybe_result, orchVars, histVars>>

\* runner.rs:44 and 53 / 71 and 80: lock() on the poisoned mutex is an Err and
\* the reader job panics.
ReaderOnPoison(s) ==
    /\ rpc[s] = "read"
    /\ readCnt[s] < emitted[s]
    /\ NextReadOk(s)
    /\ drainLock = "free"
    /\ drainPoisoned
    /\ readCnt' = [readCnt EXCEPT ![s] = @ + 1]
    /\ rpc' = [rpc EXCEPT ![s] = "panicked"]
    /\ UNCHANGED <<inputVars, childVars, log_drain, lockVars, channel, dispVars,
                   bufVars, maybe_result, orchVars, histVars>>

\* mod.rs:194 and 217-225: lock() on the poisoned mutex is an Err; PoisonedLog is
\* stored if the slot is empty and the loop is left, and on a populated slot
\* the loop goes on.  The handler is not invoked on the record.
DispPoisoned ==
    /\ dpc = "lock"
    /\ drainLock = "free"
    /\ drainPoisoned
    /\ IF ~maybe_result.some
       THEN /\ maybe_result' = Some(FALSE, PoisonedLog)
            /\ dpc' = "done"
       ELSE /\ maybe_result' = maybe_result
            /\ dpc' = "recv"
    /\ UNCHANGED <<inputVars, childVars, readerVars, log_drain, lockVars, channel,
                   line, bufVars, orchVars, histVars>>

\* ------------------------------------------------------------------- Next
Orchestrator ==
    \/ SpawnDispatcher
    \/ SpawnChild
    \/ SpawnFails
    \/ WaitChild
    \/ BarrierPoll
    \/ ReturnTaskFailure
    \/ CopyStderr
    \/ CopyStdout
    \/ TakeResult

Child ==
    \/ \E s \in Streams : ChildEmit(s)
    \/ ChildExit

Reader(s) ==
    \/ ReaderEof(s)
    \/ ReaderRegister(s)
    \/ ReaderSend(s)

Dispatcher ==
    \/ DispRecv
    \/ DispLockDrain
    \/ DispPassthrough
    \/ DispEarlyReturn

Next ==
    \/ Orchestrator
    \/ Child
    \/ \E s \in Streams : Reader(s)
    \/ Dispatcher

Spec == Init /\ [][Next]_vars

\* Every party that can take a step eventually takes one: the child runs, the
\* pool runs each job, the orchestrator's loop keeps polling.
Fairness ==
    /\ WF_vars(Orchestrator)
    /\ WF_vars(Child)
    /\ \A s \in Streams : WF_vars(Reader(s))
    /\ WF_vars(Dispatcher)

FairSpec == Spec /\ Fairness

\* The runs whose handler returns Passthrough on every record: the dispatcher
\* never takes the EarlyReturn arm.
InitPassthrough == Init /\ handler = NeverTrigger

DispatcherPassthrough ==
    \/ DispRecv
    \/ DispLockDrain
    \/ DispPassthrough

NextPassthrough ==
    \/ Orchestrator
    \/ Child
    \/ \E s \in Streams : Reader(s)
    \/ DispatcherPassthrough

SpecPassthrough == InitPassthrough /\ [][NextPassthrough]_vars

FairnessPassthrough ==
    /\ WF_vars(Orchestrator)
    /\ WF_vars(Child)
    /\ \A s \in Streams : WF_vars(Reader(s))
    /\ WF_vars(DispatcherPassthrough)

FairSpecPassthrough == SpecPassthrough /\ FairnessPassthrough

\* The run of a child some of whose lines cannot be read as UTF-8.
InitReadFail ==
    /\ command = <<"a">>
    /\ cwdOk = TRUE
    /\ task = NewTask(command, cwdOk)
    /\ lines = [Stdout |-> LineSeq(MaxOut), Stderr |-> LineSeq(MaxErr)]
    /\ unreadable \in [Streams -> SUBSET (1..MaxOut)]
    /\ \A s \in Streams : unreadable[s] \subseteq 1..Len(lines[s])
    /\ status \in {"success", "failure"}
    /\ handler \in Handlers
    /\ InitCaller
    /\ InitRun
    /\ pool = AmplePool

ReaderF(s) ==
    \/ Reader(s)
    \/ ReaderSkip(s)

NextReadFail ==
    \/ Orchestrator
    \/ Child
    \/ \E s \in Streams : ReaderF(s)
    \/ Dispatcher

SpecReadFail == InitReadFail /\ [][NextReadFail]_vars

\* A run under a Passthrough handler, with the Task's lifetime: the caller may
\* drop the Task once run has returned, and the dispatcher ends when the
\* channel is disconnected.
DispatcherDrop ==
    \/ DispatcherPassthrough
    \/ DispDisconnected

NextDrop ==
    \/ Orchestrator
    \/ Child
    \/ \E s \in Streams : Reader(s)
    \/ DispatcherDrop
    \/ DropTask

SpecDrop == InitPassthrough /\ [][NextDrop]_vars

\* As Fairness; the caller is never forced to drop the Task.
FairnessDrop ==
    /\ WF_vars(Orchestrator)
    /\ WF_vars(Child)
    /\ \A s \in Streams : WF_vars(Reader(s))
    /\ WF_vars(DispatcherDrop)

FairSpecDrop == SpecDrop /\ FairnessDrop

\* Calls of run, one after the other, on one Task: the first call runs a
\* child of at most one line per stream.
InitAgain ==
    /\ command = <<"a">>
    /\ cwdOk = TRUE
    /\ task = NewTask(command, cwdOk)
    /\ lines \in {[Stdout |-> LineSeqOf(1, n), Stderr |-> LineSeqOf(1, m)] :
                    n \in 0..1, m \in 0..1}
    /\ unreadable = AllReadable
    /\ status \in {"success", "failure"}
    /\ handler \in HandlersOf(1)
    /\ InitCaller
    /\ InitRun
    /\ pool = AmplePool

NextAgain ==
    \/ Next
    \/ RunAgain
    \/ StaleRecv

SpecAgain == InitAgain /\ [][NextAgain]_vars

\* The run with every return path of mod.rs:229-283, the failure of
\* wait_with_output included.
NextReturns ==
    \/ Next
    \/ WaitFails

SpecReturns == Init /\ [][NextReturns]_vars

\* The run of src/src/task.rs on a constructed Task.
CounterOrchestrator ==
    \/ SpawnDispatcher
    \/ SpawnChild
    \/ SpawnFails
    \/ WaitChild
    \/ CounterBarrierPoll
    \/ CounterReturnTaskFailure
    \/ CounterTakeResult

CounterReader(s) ==
    \/ ReaderEof(s)
    \/ CounterReaderRegister(s)
    \/ ReaderSend(s)

CounterDispatcher ==
    \/ CounterDispRecv
    \/ CounterDispDecrement
    \/ CounterDispPassthrough
    \/ CounterDispEarlyReturn
    \/ CounterDispStore

NextCounter ==
    \/ CounterOrchestrator
    \/ Child
    \/ \E s \in Streams : CounterReader(s)
    \/ CounterDispatcher

SpecCounter == Init /\ [][NextCounter]_vars

\* The calling thread, the child and every job of the pool keep running.
FairnessCounter ==
    /\ WF_vars(CounterOrchestrator)
    /\ WF_vars(Child)
    /\ \A s \in Streams : WF_vars(CounterReader(s))
    /\ WF_vars(CounterDispatcher)

FairSpecCounter == SpecCounter /\ FairnessCounter

\* run under a handler that never returns early, in a process whose pool has
\* any number of threads of the bounds, some of them taken by dispatchers of
\* earlier runs.
InitPool == InitInputs /\ handler = NeverTrigger /\ pool \in Pools

PoolOrchestrator ==
    \/ PoolSpawnDispatcher
    \/ PoolSpawnChild
    \/ SpawnFails
    \/ WaitChild
    \/ BarrierPoll
    \/ ReturnTaskFailure
    \/ CopyStderr
    \/ CopyStdout
    \/ TakeResult

PoolReader(s) ==
    \/ PoolStartReader(s)
    \/ ReaderEof(s)
    \/ ReaderRegister(s)
    \/ ReaderSend(s)

PoolDispatcher ==
    \/ PoolStartDispatcher
    \/ DispatcherPassthrough

NextPool ==
    \/ PoolOrchestrator
    \/ Child
    \/ \E s \in Streams : PoolReader(s)
    \/ PoolDispatcher

SpecPool == InitPool /\ [][NextPool]_vars

\* The calling thread and the child keep running, and a job that can take a
\* step, its start on an idle thread included, eventually takes one.
FairnessPool ==
    /\ WF_vars(PoolOrchestrator)
    /\ WF_vars(Child)
    /\ \A s \in Streams : WF_vars(PoolReader(s))
    /\ WF_vars(PoolDispatcher)

FairSpecPool == SpecPool /\ FairnessPool

\* run with every lock() and every drop of a guard a step of its own.
LocksOrchestrator ==
    \/ SpawnDispatcher
    \/ SpawnChild
    \/ SpawnFails
    \/ WaitChild
    \/ BarrierPoll
    \/ LkLockStderr
    \/ LkCopyStderr
    \/ LkLockStdout
    \/ LkCopyStdout
    \/ LkLockSlot
    \/ LkTakeResult

LocksReader(s) ==
    \/ ReaderEof(s)
    \/ LkReaderLock(s)
    \/ LkReaderRegister(s)
    \/ ReaderSend(s)

LocksDispatcher ==
    \/ LkDispRecv
    \/ LkDispLockBuffer
    \/ LkDispPush
    \/ DispLockDrain
    \/ DispPassthrough
    \/ LkDispEarlyReturn
    \/ LkDispLockSlot
    \/ LkDispStore

NextLocks ==
    \/ LocksOrchestrator
    \/ Child
    \/ \E s \in Streams : LocksReader(s)
    \/ LocksDispatcher

\* Any child program of the bounds that exits successfully, under any
\* handler whose early return is an Ok.  The steps that take and drop guards
\* are the same for an Err, and after a failed exit the calling thread takes
\* no lock once it has left the polling loop (mod.rs:277-282).
InitLocks == Init /\ handler.ok /\ status = "success"

SpecLocks == InitLocks /\ [][NextLocks]_vars

\* The calling thread, the child and every job of the pool keep running, and
\* the handler returns.
FairnessLocks ==
    /\ WF_vars(LocksOrchestrator)
    /\ WF_vars(Child)
    /\ \A s \in Streams : WF_vars(LocksReader(s))
    /\ WF_vars(LocksDispatcher)

FairSpecLocks == SpecLocks /\ FairnessLocks

\* ShellTask::new on any command text, followed by run if it returned a Task.
NextNew ==
    \/ New
    \/ Next

SpecNew == InitNew /\ [][NextNew]_vars

\* ShellTask::new on any command text, followed by descriptor calls.
NextDescribe ==
    \/ New
    \/ CallDescriptor
    \/ CallBashDescriptor

SpecDescribe == InitNew /\ [][NextDescribe]_vars

\* The run with panics: a job may panic while it holds log_drain's guard, and
\* the other parties meet the poisoned mutex.
Panics ==
    \/ HandlerPanics
    \/ \E s \in Streams : ReaderPanicsLocked(s)

ReaderP(s) ==
    \/ Reader(s)
    \/ ReaderOnPoison(s)

DispatcherP ==
    \/ Dispatcher
    \/ DispPoisoned

NextPoison ==
    \/ Orchestrator
    \/ Child
    \/ \E s \in Streams : ReaderP(s)
    \/ DispatcherP
    \/ Panics

SpecPoison == Init /\ [][NextPoison]_vars

\* As Fairness; a panic is never forced.
FairnessPoison ==
    /\ WF_vars(Orchestrator)
    /\ WF_vars(Child)
    /\ \A s \in Streams : WF_vars(ReaderP(s))
    /\ WF_vars(DispatcherP)

FairSpecPoison == SpecPoison /\ FairnessPoison

\* ================================================================= claims
\* run has returned to its caller after the child was spawned.
Returned == opc = "done" /\ result.error # "CouldNotSpawn"

\* The texts of the records of one stream among the first k of a sequence of
\* records, in order.
RECURSIVE TextsOf(_, _, _)
TextsOf(recs, k, s) ==
    IF k = 0 THEN <<>>
    ELSE IF recs[k].stream = s
         THEN Append(TextsOf(recs, k - 1, s), recs[k].text)
         ELSE TextsOf(recs, k - 1, s)

\* The record on which the handler returned EarlyReturn is the k-th received.
EarlyAt(k) ==
    /\ k \in 1..Len(handlerCalls)
    /\ ApplyHandler(handler, handlerCalls[k]).kind = "EarlyReturn"

\* C1: with a handler that returns Passthrough on every record and a child
\* that exits successfully, run returns CompleteOutput holding every stdout
\* line and every stderr line of the child, in emission order.
C1_CompleteOutput ==
    (Returned /\ handler = NeverTrigger /\ status = "success")
        => result = CompleteOutput("success", lines["Stdout"], lines["Stderr"])

\* C2: when the handler returned EarlyReturn(Ok(v)) on the k-th record
\* received and the child exited successfully, what run returns is EarlyReturn
\* with the texts of the first k received records, split by stream in
\* order, and with return_value v.
C2_EarlyReturnBuffers ==
    \A k \in 1..Len(handlerCalls) :
        (Returned /\ status = "success" /\ result.kind = "EarlyReturn" /\ EarlyAt(k))
            => result = EarlyReturnOutput(TextsOf(received, k, "Stdout"),
                                          TextsOf(received, k, "Stderr"),
                                          ApplyHandler(handler, received[k]).val)

\* C3: when the child exits with a non-zero status, run returns TaskFailure,
\* whatever the handler returned before and whatever the child wrote.
C3_TaskFailure ==
    (childState = "exited" /\ status = "failure")
        ~> (opc = "done" /\ result = ErrorResult("TaskFailure", "failure", NoLog))

\* C4: once the handler's EarlyReturn is stored, run eventually returns.
C4_EarlyReturnNoStall == maybe_result.some ~> (opc = "done")

\* C5: with a handler that returns Passthrough on every record, log_drain is
\* eventually empty for good and run eventually returns.
C5_PassthroughReturns ==
    (handler = NeverTrigger) => (<>[](log_drain = <<>>) /\ <>(opc = "done"))

\* C5 witness: a Passthrough run over MaxOut stdout lines and a stderr line has
\* returned with everything handled.
C5_Witness ==
    /\ Returned
    /\ handler = NeverTrigger
    /\ Len(lines["Stdout"]) = MaxOut
    /\ Len(lines["Stderr"]) >= 1
    /\ Len(handlerCalls) = MaxOut + Len(lines["Stderr"])
    /\ log_drain = <<>>

C7_PoisonedLogReturned ==
    (/\ drainPoisoned
     /\ status = "success"
     /\ opc \in {"wait", "barrier"}
     /\ ~maybe_result.some)
        ~> (opc = "done" /\ result = ErrorResult("EarlyReturn", "none", PoisonedLog))

\* C8: the handler is invoked once on each record the dispatcher receives, in
\* receive order; the only record received and not yet handled is the one
\* the dispatcher is working on.
C8_HandlerOncePerRecord ==
    /\ Len(handlerCalls) <= Len(received)
    /\ handlerCalls = SubSeq(received, 1, Len(handlerCalls))
    /\ dpc \in {"idle", "recv", "done"} => handlerCalls = received
    /\ dpc \in {"lock", "handle"} =>
          /\ Len(received) = Len(handlerCalls) + 1
          /\ line = received[Len(received)]

\* C8 witness: the handler has been invoked on records of both streams and is
\* about to be invoked on one more.
C8_Witness ==
    /\ dpc = "handle"
    /\ Len(handlerCalls) >= 2
    /\ handlerCalls[1].stream # handlerCalls[2].stream

\* C9: once the handler's EarlyReturn is stored the child is terminated: it
\* writes no further line.
C9_ProcessTerminated == [][maybe_result.some => emitted' = emitted]_vars

\* C11: on a Task that new accepted, descriptor() returns the command text
\* given to new and bash_descriptor() returns that text after "$" and one
\* space; the Task is as new built it.
C11_Descriptors ==
    task.state = "ok" =>
        /\ task = NewTask(command, cwdOk)
        /\ described.fn = "descriptor" => described.out = command
        /\ described.fn = "bash_descriptor" =>
              /\ Len(described.out) = Len(command) + 2
              /\ described.out[1] = "$"
              /\ described.out[2] = " "
              /\ SubSeq(described.out, 3, Len(described.out)) = command

\* C11 witness: bash_descriptor() was called on a Task built from a command
\* with an argument.
C11_Witness ==
    /\ task.state = "ok"
    /\ described.fn = "bash_descriptor"
    /\ Len(task.args) >= 1
    /\ Len(command) = MaxCmdLen

\* The number of records the reader of a stream has sent on the channel: the
\* lines it read, less the one it holds between registration and send.
Sent(s) == IF rpc[s] = "send" THEN readCnt[s] - 1 ELSE readCnt[s]

\* The records sent so far on which the handler returns EarlyReturn.
SentTriggers ==
    {rec \in UNION {{ShellTaskLog(s, lines[s][i]) : i \in 1..Sent(s)} : s \in Streams} :
        Matches(handler, rec)}

\* The barrier's poll finds the lock free and the drain empty.
BarrierObservesEmpty ==
    /\ opc = "barrier"
    /\ BarrierClear(log_drain, drainLock, drainPoisoned)

\* C12: when the barrier observes the drain empty, every record sent so far
\* has been received, its text is in the buffer of its stream, the handler
\* has returned from it, and the EarlyReturn the handler produced, if any, is
\* in the slot.
C12_BarrierAfterProcessing ==
    BarrierObservesEmpty =>
        /\ channel = <<>>
        /\ Len(received) = Sent("Stdout") + Sent("Stderr")
        /\ collected_stdout_lines = SubSeq(lines["Stdout"], 1, Sent("Stdout"))
        /\ collected_stderr_lines = SubSeq(lines["Stderr"], 1, Sent("Stderr"))
        /\ dpc \in {"recv", "done"}
        /\ handlerCalls = received
        /\ \A rec \in SentTriggers :
              maybe_result = Some(handler.ok, rec)

\* C12 witness: the barrier observes the drain empty after three records
\* were sent, the last of which made the handler return early.
C12_Witness ==
    /\ BarrierObservesEmpty
    /\ Sent("Stdout") + Sent("Stderr") = MaxOut + MaxErr
    /\ maybe_result.some

\* The number of records sent on the channel by both readers.
SentTotal == Sent("Stdout") + Sent("Stderr")

\* The number of records a reader has registered and not yet sent.
RegisteredUnsent == Cardinality({s \in Streams : rpc[s] = "send"})

\* The number of records the dispatcher has removed from the drain without
\* the handler having returned from them yet.
RemovedUnhandled == IF dpc = "handle" THEN 1 ELSE 0

C14_BarrierNotEarly ==
    BarrierObservesEmpty => \A s \in Streams : readCnt[s] = Len(lines[s])

\* The number of records the dispatcher has received and whose handler
\* invocation has not returned yet.
BeingHandled == IF dpc \in {"lock", "handle"} THEN 1 ELSE 0

EarlyReturned ==
    \E i \in 1..Len(handlerCalls) :
        ApplyHandler(handler, handlerCalls[i]).kind = "EarlyReturn"

\* C16: once the handler has returned EarlyReturn, the dispatcher receives no
\* further record, invokes the handler no more and appends nothing to the
\* buffers; no record leaves the channel.
C16_NothingAfterEarlyReturn ==
    [][EarlyReturned =>
          /\ received' = received
          /\ handlerCalls' = handlerCalls
          /\ collected_stdout_lines' = collected_stdout_lines
          /\ collected_stderr_lines' = collected_stderr_lines
          /\ Len(channel') >= Len(channel)
          /\ SubSeq(channel', 1, Len(channel)) = channel]_vars

\* C16 witness: the handler has returned EarlyReturn on the first record
\* received, and two records sent since are on the channel.
C16_Witness ==
    /\ EarlyReturned
    /\ Len(handlerCalls) = 1
    /\ Len(channel) = 2
    /\ dpc = "done"

\* C17: the buffer of each stream is a prefix of the lines the child has
\* written to that stream.
C17_BuffersArePrefixes ==
    /\ Len(collected_stdout_lines) <= emitted["Stdout"]
    /\ collected_stdout_lines =
          SubSeq(lines["Stdout"], 1, Len(collected_stdout_lines))
    /\ Len(collected_stderr_lines) <= emitted["Stderr"]
    /\ collected_stderr_lines =
          SubSeq(lines["Stderr"], 1, Len(collected_stderr_lines))

\* A read of the stream has failed.
ReadFailed(s) == \E i \in unreadable[s] : i <= readCnt[s]

\* C18: after the first failed read on a stream its reader registers and
\* sends no further record and ends: it reads no line past the failed one.
C18_ReaderEndsAtFailedRead ==
    [][\A s \in Streams :
          ReadFailed(s) =>
              /\ readCnt'[s] = readCnt[s]
              /\ rpc'[s] \in {rpc[s], "eof"}
              /\ Len(SelectSeq(log_drain', LAMBDA e : e = s))
                    <= Len(SelectSeq(log_drain, LAMBDA e : e = s))
              /\ Len(SelectSeq(channel', LAMBDA r : r.stream = s))
                    <= Len(SelectSeq(channel, LAMBDA r : r.stream = s))]_vars

\* Both readers have reached EOF and every record has been handled.
AllHandled ==
    /\ \A s \in Streams : rpc[s] = "eof"
    /\ channel = <<>>
    /\ dpc \notin {"lock", "handle"}
    /\ Len(handlerCalls) = Len(lines["Stdout"]) + Len(lines["Stderr"])

\* C20: under a handler that never returns EarlyReturn, once both readers
\* have reached EOF and every record has been handled, the dispatcher
\* eventually leaves its receive loop.
C20_DispatcherTerminates ==
    (handler = NeverTrigger /\ AllHandled) ~> (dpc = "done")

\* C19: a record produced by the readers of one call of run is received only
\* by the dispatcher of that call.
C19_RecordsStayInTheirCall ==
    /\ \A i \in 1..Len(received) : CallOf(received[i]) = calls
    /\ \A i \in 1..Len(stale.received) : CallOf(stale.received[i]) = stale.call

\* run returns in this step.
RunReturns == opc # "done" /\ opc' = "done"

\* The orchestrator is past the barrier: wait_with_output has returned the
\* exit status and a poll has observed the drain free and empty.
PastBarrier == opc \in {"assemble", "copyStdout", "takeResult"} /\ childState = "exited"

\* C21 as stated: every return of run, with an output or with any error, is
\* made past the barrier.
C21_EveryReturnPastBarrier ==
    [][RunReturns => PastBarrier]_vars

\* C21 amended: every return of run other than the CouldNotSpawn and
\* CouldNotWait errors is made past the barrier.
C21_OutputReturnsPastBarrier ==
    [][(RunReturns /\ result'.error \notin {"CouldNotSpawn", "CouldNotWait"})
          => PastBarrier]_vars

\* C21 witness: run has returned TaskFailure for a child that wrote every
\* line of the bounds.
C21_Witness ==
    /\ opc = "done"
    /\ result.error = "TaskFailure"
    /\ Len(lines["Stdout"]) = MaxOut
    /\ Len(lines["Stderr"]) = MaxErr

\* C22: in the run of src/src/task.rs, once the child has exited successfully
\* under a handler that only ever returns Passthrough, run returns Ok(None),
\* whatever number of lines the child wrote, none included.
C22_PassthroughReturnsNone ==
    (childState = "exited" /\ handler = NeverTrigger /\ status = "success")
        ~> (opc = "done" /\ result = OkNone)

\* C22, the part that holds: what run returns under such a handler after a
\* successful exit is Ok(None).
C22_PassthroughReturnIsNone ==
    (opc = "done" /\ handler = NeverTrigger /\ status = "success" /\ childState = "exited")
        => result = OkNone

\* C22, the part that holds: a child that wrote at least one line.
C22_SomeLineReturnsNone ==
    (/\ childState = "exited" /\ handler = NeverTrigger /\ status = "success"
     /\ \E s \in Streams : lines[s] # <<>>)
        ~> (opc = "done" /\ result = OkNone)

\* C22: the child wrote no line and exited successfully, the counter is
\* still None and the calling thread is in the polling loop.
C22_SilentChildPolling ==
    /\ opc = "barrier"
    /\ childState = "exited"
    /\ status = "success"
    /\ handler = NeverTrigger
    /\ \A s \in Streams : lines[s] = <<>> /\ rpc[s] = "eof"
    /\ log_counter = NoCount

\* In the run of src/src/task.rs the handler has returned EarlyReturn(Ok(v))
\* on the record the dispatcher holds: the dispatcher is about to write the
\* slot, or has written it and left its loop.
HandlerReturnedOk ==
    /\ dpc \in {"store", "done"}
    /\ Matches(handler, line)
    /\ handler.ok

\* C23: in the run of src/src/task.rs, when the handler has returned
\* EarlyReturn(Ok(v)) on a record and the child exited successfully, what run
\* returns is Ok(Some(v)), however the dispatcher's decrement, handler call
\* and slot write interleave with the polling loop and the slot read.
C23_EarlyReturnIsReturned ==
    [][(RunReturns /\ status = "success" /\ childState = "exited" /\ HandlerReturnedOk)
          => result' = OkSome(line)]_vars

\* C23 as a liveness property: after such a return of the handler run
\* eventually returns Ok(Some(v)).
C23_EarlyReturnEventuallyReturned ==
    (HandlerReturnedOk /\ status = "success")
        ~> (opc = "done" /\ result = OkSome(line))

\* C23: run has returned Ok(None) although the handler had returned
\* EarlyReturn(Ok(v)) before the slot was read.
C23_ReturnedNoneAfterEarlyReturn ==
    /\ opc = "done"
    /\ result = OkNone
    /\ ~slotRead.some
    /\ HandlerReturnedOk

\* C24: every reader job handed to the pool eventually starts, whatever the
\* number of threads of the pool and of dispatcher jobs blocked in recv().
C24_ReaderJobsStart ==
    \A s \in Streams : (rpc[s] = "queued") ~> (rpc[s] # "queued")

\* C24, the part that holds: on a pool with a thread for each job of the run
\* and for each blocked dispatcher, every reader job starts.
C24_ReaderJobsStartOnAmplePool ==
    \A s \in Streams :
        (rpc[s] = "queued" /\ pool.threads >= JobsPerRun + pool.earlier)
            ~> (rpc[s] # "queued")

\* C24: the only thread of the pool is held by the dispatcher, blocked in
\* recv(); the child has written its lines and exited, no reader has started
\* and run has returned an output without a line.
C24_ReadersNeverStarted ==
    /\ pool = Pool(1, 0)
    /\ dpc = "recv"
    /\ \A s \in Streams : rpc[s] = "queued"
    /\ Len(lines["Stdout"]) = MaxOut
    /\ opc = "done"
    /\ result = CompleteOutput(status, <<>>, <<>>)

\* No thread of the run is in a chain of waits that leads back to itself.
NoLockCycle == \A t \in Threads : <<t, t>> \notin WaitChains

\* C25: no reachable state of a run is a lock deadlock, a cycle of threads
\* each blocked on a mutex the next one holds, and every mutex that is held
\* is eventually released, the handler returning from every call: the
\* run comes to a state from which no mutex is held any more.
C25_NoLockDeadlock ==
    /\ []NoLockCycle
    /\ <>[](\A l \in Locks : Owner(l) = "free")

\* C25: the dispatcher holds the guards of log_drain and of maybe_result, a
\* reader is blocked on log_drain and the calling thread on maybe_result.
C25_Witness ==
    /\ dpc = "store"
    /\ Owner("log_drain") = "dispatcher"
    /\ Owner("maybe_result") = "dispatcher"
    /\ \E s \in Streams : <<s, "dispatcher">> \in WaitsFor
    /\ <<"orchestrator", "dispatcher">> \in WaitsFor

\* C26: whenever the dispatcher has received a record and is about to
\* remove an entry, the drain it removes from holds at least one entry, over
\* any sequence of calls of run on one Task.
C26_PendingAtReceipt == dpc = "lock" => Len(log_drain) >= 1

\* C26 in the run of src/src/task.rs, one call: whenever the dispatcher has
\* received a record and is about to decrement, the counter is Some(n) with
\* n >= 1.
C26_CountedAtReceipt == dpc = "lock" => (log_counter.some /\ log_counter.n >= 1)

\* C26: the dispatcher of a later call has received a record that the
\* readers of an earlier call sent, and the drain it removes from is empty.
C26_EarlierRecordOnEmptyDrain ==
    /\ dpc = "lock"
    /\ calls > 1
    /\ CallOf(line) < calls
    /\ log_drain = <<>>

\* The first token of the command text does not resolve to an executable; the
\* empty text, whose first token is empty, is such a text.
Unresolvable == ~Which(Split(command)[1])

\* No process has been spawned, no job started, no handler invoked.
NothingStarted ==
    /\ childState = "unspawned"
    /\ dpc = "idle"
    /\ \A s \in Streams : rpc[s] = "idle"
    /\ opc = "start"
    /\ handlerCalls = <<>>

\* C10 as stated: new fails with InvalidTask on the empty text and on every
\* text whose first token does not resolve, and nothing is ever started.
C10_InvalidTask ==
    (task.state # "unbuilt" /\ (command = <<>> \/ Unresolvable)) =>
        /\ task.state = "err"
        /\ task.error = "InvalidTask"
        /\ NothingStarted

\* C10 amended: on such a text new fails, with InvalidTask when the current
\* directory can be found and with CouldNotFindCurrentDirectory when it cannot,
\* and nothing is ever started.
C10_NewFails ==
    (task.state # "unbuilt" /\ (command = <<>> \/ Unresolvable)) =>
        /\ task.state = "err"
        /\ task.error = IF cwdOk THEN "InvalidTask" ELSE "CouldNotFindCurrentDirectory"
        /\ NothingStarted

\* C10 witness: new has failed with InvalidTask on the empty text.
C10_Witness ==
    /\ command = <<>>
    /\ task.state = "err"
    /\ task.error = "InvalidTask"

====
